---- MODULE Spec2Model ----
(***************************************************************************)
(* Aggregation-and-escalation engine of pinokio: the per-chat aggregator   *)
(* (RedisClient.process_message / _flush_series), the per-chat worker      *)
(* (_chat_worker), the deadline scheduler (scheduler_tick) and the ingress *)
(* router's merchant path (ProducerPinokIO.process_incoming_message).      *)
(* One chat is modelled; every store key below is that chat's key.  Each   *)
(* action is one store operation (or one interpreter-level step on the     *)
(* shared dictionaries) of one thread, so threads interleave exactly where *)
(* the Python threads can.                                                 *)
(***************************************************************************)
EXTENDS Integers, Sequences, FiniteSets, TLC

\* ---------------------------------------------------------------- bounds
MaxEvents == 2      \* raw events appended to the chat's stream
MaxTime == 2        \* wall clock runs 0..MaxTime
WindowS == 1        \* the chat's aggregation window window_s
FaultBudget == 1    \* store errors injected into process_message

Users == {"A", "B"}
NL == "\n"
Texts == {<<>>, <<"x">>}
Workers == {"w1", "w2"}         \* thread slots for the chat's worker
Threads == Workers \cup {"sch", "main"} \* threads that may run _flush_series
Absent == 0 - 1

VARIABLES
  now,            \* time.time(), whole seconds
  half,           \* time.time(), the half second within now (0 or 1)
  raw,            \* raw stream: Seq of events, stream id = index; mid is messages_id
  lastDelivered,  \* consumer group's last-delivered id
  acked,          \* ids XACKed
  series,         \* aggregation hash (agg_key)
  deadline,       \* score of the chat in sched_zset, Absent if no member
  finals,         \* final stream, oldest first
  finalSeq,       \* ids handed out by XADD on the final stream
  stopReg,        \* _stop_events[chat]: the worker whose Event is registered, or "none"
  stopSet,        \* per worker thread: its stop Event is set
  flushLock,      \* _flush_locks[chat]: id of the Lock object, 0 if no entry
  lockHeld,       \* Lock objects currently held
  nextLock,       \* next Lock object identity
  wpc, batch, cur, wnow, wser,   \* worker thread: position and locals
  fpc, flk, fser,                \* _flush_series frame of a thread
  spc, snow,                     \* scheduler thread: position, tick's current_time
  faults,         \* store errors raised so far
  gpc, gev, gcont,  \* ingress handler: position, the event, "continues the active series"
  arrivals,       \* events the ingress handler has received (messages_id = arrival number)
  ilog,           \* history: what ingress did with each event
  started,        \* history: ids for which process_message was entered
  returned,       \* history: ids for which process_message returned normally
  failed,         \* history: ids whose process_message raised
  plog,           \* history: <<id, current_time>> of normal returns, in order
  flushLog,       \* history: series incarnation of every final _flush_series appended
  nextSid,        \* history: next series incarnation
  mpc, msnap, mnow, mcur,   \* escalation monitor: position, merchant_messages left, current_time, msg
  mhalf,          \* escalation monitor: the half second of current_time (0 or 1)
  mgate,          \* escalation monitor: should_process of the scan
  mlast,          \* history: what the scan decided about the message it examined last
  sillog,         \* history: silence notifications started, [t, since]
  remlog,         \* history: reminder attempts started, [id, late]
  remdone,        \* history: reminder attempts finished, [id, ok]
  ppc, pev,       \* ingress handler of a PP event: position, the event
  rawDeleted,     \* raw stream ids removed by XDEL
  resps,          \* history: results returned by the ingress router
  resolved,       \* history: final ids deleted by a reply to their parent message
  pplog,          \* history: what the PP path did with each PP event
  xpc, xnow,      \* stop_all on the main thread: position, time of its flush
  schStop,        \* the scheduler's stop Event is set
  botEnabled,     \* CONFIG_CHATS[chat]['pinger']['bot_enabled']
  rejlog,         \* history: events the ingress router turned away
  silEnabled,     \* CONFIG_CHATS[chat]['silencer']['enabled']
  tcheck,         \* history: the last call of should_process_message_by_time
  winCfg,         \* CONFIG_CHATS[chat]['pinger']['redis_buffer_window'], Absent if not set
  confWindow,     \* window_s of the chat's conf hash, Absent if not set
  silClock,       \* last_silence_notification[chat] in half seconds, Absent if no entry
  aggKeys         \* the keys of the store that hold a series hash of the chat

vars == <<now, half, raw, lastDelivered, acked, series, deadline, finals, finalSeq,
          stopReg, stopSet, flushLock, lockHeld, nextLock,
          wpc, batch, cur, wnow, wser, fpc, flk, fser, spc, snow,
          faults, gpc, gev, gcont, arrivals, ilog,
          started, returned, failed, plog, flushLog, nextSid,
          mpc, msnap, mnow, mcur, mhalf, mgate, mlast, sillog, remlog, remdone,
          ppc, pev, rawDeleted, resps, resolved, pplog, xpc, xnow, schStop,
          botEnabled, rejlog, silEnabled, tcheck, winCfg, confWindow, silClock, aggKeys>>

ingressVars == <<gpc, gev, gcont, arrivals, ilog>>
storeVars == <<series, aggKeys, deadline, finals, finalSeq>>
lockVars == <<flushLock, lockHeld, nextLock>>
histVars == <<started, returned, failed, plog, flushLog, nextSid>>
monVars == <<mpc, msnap, mnow, mcur, mhalf, mgate, mlast, sillog, remlog, remdone>>
ppVars == <<ppc, pev, rawDeleted, resps, resolved, pplog>>
downVars == <<xpc, xnow, schStop>>
cfgVars == <<botEnabled, rejlog, silEnabled, tcheck, winCfg, confWindow>>
sideVars == <<monVars, ppVars, downVars, cfgVars, silClock>>

\* ------------------------------------------------------------ store values
\* should_process_message_by_time has not been called.
NoCheck == [called |-> FALSE]

\* The scan has not examined a message.
NoDecision == [id |-> 0, age2 |-> 0, reminded |-> FALSE]

\* A hash that does not exist: hgetall returns {}.
NoSeries ==
  [live |-> FALSE, user |-> "", utype |-> "", mid |-> 0, text |-> <<>>,
   start_ts |-> Absent, last_ts |-> Absent, count |-> 0, evs |-> <<>>, sid |-> 0,
   fused |-> 0]

\* f"{existing_text}\n{text}" if existing_text else text
JoinText(existing, text) ==
  IF existing # <<>> THEN existing \o <<NL>> \o text ELSE text

\* A variant with one hash per author.
AggKeyPerUser(u) == u

\* agg_key = agg_hash_tpl.format(chat_id=chat_id), whoever wrote the event
AggKey(u) == "agg"

\* The mapping process_message writes for a series that starts with event id.
NewSeriesData(id, t) ==
  [live |-> TRUE, user |-> raw[id].user, utype |-> raw[id].utype, mid |-> raw[id].mid,
   text |-> raw[id].text, start_ts |-> t, last_ts |-> t, count |-> 1,
   evs |-> <<raw[id].mid>>, sid |-> 0, fused |-> 1]

\* hset(agg_key, mapping=series_data): every field written; creates the hash.
\* fused is history: the hset calls on the hash since it was created.
HSetNew(old, id, t, sid) ==
  [NewSeriesData(id, t) EXCEPT !.sid = IF old.live THEN old.sid ELSE sid,
                               !.fused = IF old.live THEN old.fused + 1 ELSE 1]

\* hset(agg_key, mapping=update_data): only text, last_ts, count are written,
\* computed from the snapshot cs read earlier; the other fields keep what the
\* hash holds now (nothing, if the hash was deleted meanwhile).
HSetUpdate(old, cs, id, t, sid) ==
  [old EXCEPT !.live = TRUE,
              !.text = JoinText(cs.text, raw[id].text),
              !.last_ts = t,
              !.count = cs.count + 1,
              !.evs = Append(cs.evs, raw[id].mid),
              !.sid = IF old.live THEN old.sid ELSE sid,
              !.fused = IF old.live THEN old.fused + 1 ELSE 1]

WindowDefault == 2         \* aggregation.window_seconds_default, as get_window documents it
RouterWindowDefault == 20  \* the default _ensure_worker_for_chat reads the chat's window with

\* get_window: the chat's window_s if the conf hash has one, else the default.
\* process_message reads it once per event; the chat's stored window does
\* not change between the events of a run.
GetWindow == IF confWindow # Absent THEN confWindow ELSE WindowDefault

\* _ensure_worker_for_chat: window_cfg = pinger.get('redis_buffer_window', 20);
\* set_window(chat_id, window_cfg)
ApplyWindow == confWindow' = IF winCfg = Absent THEN RouterWindowDefault ELSE winCfg

\* A variant of the fusion test whose bound is exclusive.
SameAuthorBeforeWindow(cs, id, t) ==
  /\ cs.user = raw[id].user
  /\ t - cs.last_ts < GetWindow

\* A variant of the fusion test that looks at the author only.
SameAuthorAnyTime(cs, id, t) == cs.user = raw[id].user

\* same_author and time_since_last <= window_seconds
SameAuthorInWindow(cs, id, t) ==
  /\ cs.user = raw[id].user
  /\ t - cs.last_ts <= GetWindow

\* final_message_data built by _flush_series from the hash it read.
FinalOf(s, t, fid) ==
  [id |-> fid, user |-> s.user, utype |-> s.utype, mid |-> s.mid, text |-> s.text,
   start_ts |-> IF s.start_ts = Absent THEN t ELSE s.start_ts,
   end_ts |-> IF s.last_ts = Absent THEN t ELSE s.last_ts,
   count |-> IF s.count = 0 THEN 1 ELSE s.count,
   evs |-> s.evs, sid |-> s.sid]

\* No event in the ingress handler.
NoEvent == [mid |-> 0, user |-> "", text |-> <<>>, t |-> 0]

\* current_time of the _flush_series call of thread t
FlushTime(t) == IF t = "sch" THEN snow ELSE IF t = "main" THEN xnow ELSE wnow[t]

\* The state after construction, whatever the chat's configuration.
Constructed ==
  /\ now = 0
  /\ half = 0
  /\ raw = <<>>
  /\ lastDelivered = 0
  /\ acked = {}
  /\ series = NoSeries
  /\ deadline = Absent
  /\ finals = <<>>
  /\ finalSeq = 0
  /\ stopReg = "none"
  /\ stopSet = [w \in Workers |-> FALSE]
  /\ flushLock = 0
  /\ lockHeld = {}
  /\ nextLock = 1
  /\ wpc = [w \in Workers |-> "unborn"]
  /\ batch = [w \in Workers |-> <<>>]
  /\ cur = [w \in Workers |-> 0]
  /\ wnow = [w \in Workers |-> 0]
  /\ wser = [w \in Workers |-> NoSeries]
  /\ fpc = [t \in Threads |-> "none"]
  /\ flk = [t \in Threads |-> 0]
  /\ fser = [t \in Threads |-> NoSeries]
  /\ spc = "idle"
  /\ snow = 0
  /\ faults = 0
  /\ gpc = "idle"
  /\ gev = NoEvent
  /\ gcont = FALSE
  /\ arrivals = 0
  /\ ilog = <<>>
  /\ started = {}
  /\ returned = {}
  /\ failed = {}
  /\ plog = <<>>
  /\ flushLog = <<>>
  /\ nextSid = 1
  /\ mpc = "idle"
  /\ msnap = <<>>
  /\ mnow = 0
  /\ mcur = 0
  /\ remlog = <<>>
  /\ remdone = <<>>
  /\ ppc = "idle"
  /\ pev = NoEvent
  /\ rawDeleted = {}
  /\ resps = <<>>
  /\ resolved = {}
  /\ pplog = <<>>
  /\ xpc = "idle"
  /\ xnow = 0
  /\ schStop = FALSE
  /\ rejlog = <<>>
  /\ aggKeys = {}
  /\ mhalf = 0
  /\ mgate = TRUE
  /\ mlast = NoDecision
  /\ sillog = <<>>
  /\ silClock = Absent
  /\ tcheck = NoCheck

\* The chat's configuration names the window, and an earlier run has stored it.
WindowSet == winCfg = WindowS /\ confWindow = WindowS

Init == Constructed /\ botEnabled = TRUE /\ silEnabled = FALSE /\ WindowSet

\* ------------------------------------------------------------ environment
\* if silencer.enabled: last_silence_notification.update({chat_id: time.time()})
StartSilence == silClock' = IF silEnabled THEN 2 * now + half ELSE silClock

\* time passes
TickTo(limit) ==
  /\ now < limit
  /\ now' = now + 1
  /\ half' = 0
  /\ UNCHANGED <<ingressVars, sideVars, raw, lastDelivered, acked, storeVars, stopReg, stopSet, lockVars,
                 wpc, batch, cur, wnow, wser, fpc, flk, fser, spc, snow, faults,
                 histVars>>

Tick == TickTo(MaxTime)

\* add_message: XADD of one event to the raw stream.
AddMessage(u, txt) ==
  /\ Len(raw) < MaxEvents
  /\ raw' = Append(raw, [mid |-> Len(raw) + 1, user |-> u, utype |-> "merchant", text |-> txt])
  /\ UNCHANGED <<ingressVars, sideVars, now, half, lastDelivered, acked, storeVars, stopReg, stopSet, lockVars,
                 wpc, batch, cur, wnow, wser, fpc, flk, fser, spc, snow, faults,
                 histVars>>

\* The thread slot start_worker's new thread runs in.
FreeSlot == IF wpc["w1"] = "unborn" THEN "w1" ELSE "w2"

\* start_worker: no-op when the chat has an entry in _stop_events.
StartWorker ==
  /\ stopReg = "none"
  /\ \E w \in Workers : wpc[w] = "unborn"
  /\ stopReg' = FreeSlot
  /\ wpc' = [wpc EXCEPT ![FreeSlot] = "top"]
  /\ UNCHANGED <<ingressVars, sideVars, now, half, raw, lastDelivered, acked, storeVars, stopSet, lockVars,
                 batch, cur, wnow, wser, fpc, flk, fser, spc, snow, faults, histVars>>

\* stop_worker: set the Event, drop it from _stop_events, drop the chat's Lock.
StopWorker ==
  /\ stopReg # "none"
  /\ stopSet' = [stopSet EXCEPT ![stopReg] = TRUE]
  /\ stopReg' = "none"
  /\ flushLock' = 0
  /\ UNCHANGED <<ingressVars, sideVars, now, half, raw, lastDelivered, acked, storeVars, lockHeld, nextLock,
                 wpc, batch, cur, wnow, wser, fpc, flk, fser, spc, snow, faults,
                 histVars>>

\* Thread t is inside the with block of _flush_series, past the early return.
InCritical(t) == fpc[t] \in {"f_xadd", "f_del", "f_zrem"}

\* ------------------------------------------------------------ _flush_series
\* Where a thread continues when its _flush_series call returns.
FlushReturn(t) ==
  /\ fpc' = [fpc EXCEPT ![t] = "none"]
  /\ flk' = [flk EXCEPT ![t] = 0]
  /\ fser' = [fser EXCEPT ![t] = NoSeries]
  /\ IF t \in Workers
       THEN /\ wpc' = [wpc EXCEPT ![t] = "pm_new"]
            /\ UNCHANGED <<spc, snow, xpc>>
       ELSE IF t = "sch"
         THEN /\ spc' = "idle"
              /\ snow' = 0
              /\ UNCHANGED <<wpc, xpc>>
         ELSE /\ xpc' = "signal"
              /\ UNCHANGED <<wpc, spc, snow>>

\* An exception leaves _flush_series: the worker's except branch drops the
\* rest of the batch and sleeps, the scheduler's sleeps; both loop again.
\* stop_all has no handler: the exception leaves it before any Event is set.
FlushRaise(t) ==
  /\ fpc' = [fpc EXCEPT ![t] = "none"]
  /\ flk' = [flk EXCEPT ![t] = 0]
  /\ fser' = [fser EXCEPT ![t] = NoSeries]
  /\ IF t \in Workers
       THEN /\ wpc' = [wpc EXCEPT ![t] = "top"]
            /\ batch' = [batch EXCEPT ![t] = <<>>]
            /\ cur' = [cur EXCEPT ![t] = 0]
            /\ failed' = failed \cup {cur[t]}
            /\ UNCHANGED <<spc, snow, xpc>>
       ELSE IF t = "sch"
         THEN /\ spc' = "idle"
              /\ snow' = 0
              /\ UNCHANGED <<wpc, batch, cur, failed, xpc>>
         ELSE /\ xpc' = "raised"
              /\ UNCHANGED <<wpc, batch, cur, failed, spc, snow>>

\* if chat_id not in self._flush_locks
FCheck(t) ==
  /\ fpc[t] = "f_check"
  /\ fpc' = [fpc EXCEPT ![t] = IF flushLock = 0 THEN "f_create" ELSE "f_get"]
  /\ UNCHANGED <<ingressVars, sideVars, now, half, raw, lastDelivered, acked, storeVars, stopReg, stopSet, lockVars,
                 wpc, batch, cur, wnow, wser, flk, fser, spc, snow, faults, histVars>>

\* self._flush_locks[chat_id] = threading.Lock()
FCreate(t) ==
  /\ fpc[t] = "f_create"
  /\ flushLock' = nextLock
  /\ nextLock' = nextLock + 1
  /\ fpc' = [fpc EXCEPT ![t] = "f_get"]
  /\ UNCHANGED <<ingressVars, sideVars, now, half, raw, lastDelivered, acked, storeVars, stopReg, stopSet, lockHeld,
                 wpc, batch, cur, wnow, wser, flk, fser, spc, snow, faults, histVars>>

\* self._flush_locks[chat_id], evaluated for the with statement
FGet(t) ==
  /\ fpc[t] = "f_get"
  /\ IF flushLock = 0
       THEN /\ FlushRaise(t)
            /\ UNCHANGED <<ingressVars, monVars, ppVars, cfgVars, silClock, xnow, schStop, now, half, raw, lastDelivered, acked, storeVars, stopReg, stopSet,
                           lockVars, wnow, wser, faults,
                           started, returned, plog, flushLog, nextSid>>
       ELSE /\ flk' = [flk EXCEPT ![t] = flushLock]
            /\ fpc' = [fpc EXCEPT ![t] = "f_acq"]
            /\ UNCHANGED <<ingressVars, monVars, ppVars, cfgVars, silClock, xnow, schStop, now, half, raw, lastDelivered, acked, storeVars, stopReg, stopSet,
                           lockVars, wpc, batch, cur, wnow, wser, fser, spc, snow,
                           xpc, faults, histVars>>

\* with lock: series_data = hgetall(agg_key); if not series_data: return None
FAcquire(t) ==
  /\ fpc[t] = "f_acq"
  /\ flk[t] \notin lockHeld
  /\ IF series.live
       THEN /\ lockHeld' = lockHeld \cup {flk[t]}
            /\ fser' = [fser EXCEPT ![t] = series]
            /\ fpc' = [fpc EXCEPT ![t] = "f_xadd"]
            /\ UNCHANGED <<wpc, spc, snow, xpc, flk>>
       ELSE /\ FlushReturn(t)
            /\ UNCHANGED lockHeld
  /\ UNCHANGED <<ingressVars, monVars, ppVars, cfgVars, silClock, xnow, schStop, now, half, raw, lastDelivered, acked, storeVars, stopReg, stopSet,
                 flushLock, nextLock, batch, cur, wnow, wser, faults, histVars>>

\* xadd(final_stream, final_message_data)
FXadd(t) ==
  /\ fpc[t] = "f_xadd"
  /\ finals' = Append(finals, FinalOf(fser[t], FlushTime(t), finalSeq + 1))
  /\ finalSeq' = finalSeq + 1
  /\ flushLog' = Append(flushLog, fser[t].sid)
  /\ fpc' = [fpc EXCEPT ![t] = "f_del"]
  /\ UNCHANGED <<ingressVars, sideVars, now, half, raw, lastDelivered, acked, series, aggKeys, deadline, stopReg, stopSet,
                 lockVars, wpc, batch, cur, wnow, wser, flk, fser, spc, snow, faults,
                 started, returned, failed, plog, nextSid>>

\* delete(agg_key)
FDelete(t) ==
  /\ fpc[t] = "f_del"
  /\ series' = NoSeries
  /\ aggKeys' = aggKeys \ {AggKey(fser[t].user)}
  /\ fpc' = [fpc EXCEPT ![t] = "f_zrem"]
  /\ UNCHANGED <<ingressVars, sideVars, now, half, raw, lastDelivered, acked, deadline, finals, finalSeq, stopReg,
                 stopSet, lockVars, wpc, batch, cur, wnow, wser, flk, fser, spc, snow,
                 faults, histVars>>

\* zrem(sched_zset, chat_id); the with block ends, return final_message_id
FZrem(t) ==
  /\ fpc[t] = "f_zrem"
  /\ deadline' = Absent
  /\ lockHeld' = lockHeld \ {flk[t]}
  /\ FlushReturn(t)
  /\ UNCHANGED <<ingressVars, monVars, ppVars, cfgVars, silClock, xnow, schStop, now, half, raw, lastDelivered, acked, series, aggKeys, finals, finalSeq, stopReg,
                 stopSet, flushLock, nextLock, batch, cur, wnow, wser, faults, histVars>>

\* ------------------------------------------------------------ _chat_worker
\* The entries of the raw stream after the group's last-delivered id; an
\* entry removed by XDEL is no longer in the stream.
Unread ==
  SelectSeq([i \in 1..(Len(raw) - lastDelivered) |-> lastDelivered + i],
            LAMBDA i : i \notin rawDeleted)

\* xreadgroup(group, consumer, {stream: ">"}, count=64): the entries never
\* delivered to the group.
WRead(w) ==
  /\ wpc[w] = "top"
  /\ ~stopSet[w]
  /\ Unread # <<>>
  /\ batch' = [batch EXCEPT ![w] = Unread]
  /\ lastDelivered' = Unread[Len(Unread)]
  /\ wpc' = [wpc EXCEPT ![w] = "next"]
  /\ UNCHANGED <<ingressVars, sideVars, now, half, raw, acked, storeVars, stopReg, stopSet, lockVars,
                 cur, wnow, wser, fpc, flk, fser, spc, snow, faults, histVars>>

\* while not stop_event.is_set(): the loop ends
WExit(w) ==
  /\ wpc[w] = "top"
  /\ stopSet[w]
  /\ wpc' = [wpc EXCEPT ![w] = "done"]
  /\ UNCHANGED <<ingressVars, sideVars, now, half, raw, lastDelivered, acked, storeVars, stopReg, stopSet, lockVars,
                 batch, cur, wnow, wser, fpc, flk, fser, spc, snow, faults, histVars>>

\* The branch process_message takes on the hash cs it read.
Branch(cs, id, t) ==
  IF ~cs.live THEN "pm_new"
  ELSE IF SameAuthorInWindow(cs, id, t) THEN "pm_ext"
  ELSE "pm_flush"

\* Next entry of the batch: process_message starts (current_time = time.time(),
\* current_series = hgetall(agg_key)) and picks its branch.
WBegin(w) ==
  /\ wpc[w] = "next"
  /\ batch[w] # <<>>
  /\ LET id == Head(batch[w]) IN
       /\ cur' = [cur EXCEPT ![w] = id]
       /\ batch' = [batch EXCEPT ![w] = Tail(batch[w])]
       /\ wnow' = [wnow EXCEPT ![w] = now]
       /\ wser' = [wser EXCEPT ![w] = series]
       /\ started' = started \cup {id}
       /\ wpc' = [wpc EXCEPT ![w] = Branch(series, id, now)]
       /\ fpc' = [fpc EXCEPT ![w] = IF Branch(series, id, now) = "pm_flush"
                                      THEN "f_check" ELSE "none"]
  /\ UNCHANGED <<ingressVars, sideVars, now, half, raw, lastDelivered, acked, storeVars, stopReg, stopSet, lockVars,
                 flk, fser, spc, snow, faults, returned, failed, plog, flushLog, nextSid>>

\* hset(agg_key, mapping=series_data / new_series_data)
WNew(w) ==
  /\ wpc[w] = "pm_new"
  /\ series' = HSetNew(series, cur[w], wnow[w], nextSid)
  /\ aggKeys' = aggKeys \cup {AggKey(raw[cur[w]].user)}
  /\ nextSid' = IF series.live THEN nextSid ELSE nextSid + 1
  /\ wpc' = [wpc EXCEPT ![w] = "pm_zadd"]
  /\ UNCHANGED <<ingressVars, sideVars, now, half, raw, lastDelivered, acked, deadline, finals, finalSeq, stopReg,
                 stopSet, lockVars, batch, cur, wnow, wser, fpc, flk, fser, spc, snow,
                 faults, started, returned, failed, plog, flushLog>>

\* hset(agg_key, mapping=update_data)
WExtend(w) ==
  /\ wpc[w] = "pm_ext"
  /\ series' = HSetUpdate(series, wser[w], cur[w], wnow[w], nextSid)
  /\ aggKeys' = aggKeys \cup {AggKey(raw[cur[w]].user)}
  /\ nextSid' = IF series.live THEN nextSid ELSE nextSid + 1
  /\ wpc' = [wpc EXCEPT ![w] = "pm_zadd"]
  /\ UNCHANGED <<ingressVars, sideVars, now, half, raw, lastDelivered, acked, deadline, finals, finalSeq, stopReg,
                 stopSet, lockVars, batch, cur, wnow, wser, fpc, flk, fser, spc, snow,
                 faults, started, returned, failed, plog, flushLog>>

\* _schedule_deadline(chat_id, current_time + window_seconds); process_message returns
WSchedule(w) ==
  /\ wpc[w] = "pm_zadd"
  /\ deadline' = wnow[w] + GetWindow
  /\ returned' = returned \cup {cur[w]}
  /\ plog' = Append(plog, <<cur[w], wnow[w]>>)
  /\ wpc' = [wpc EXCEPT ![w] = "ack"]
  /\ UNCHANGED <<ingressVars, sideVars, now, half, raw, lastDelivered, acked, series, aggKeys, finals, finalSeq, stopReg,
                 stopSet, lockVars, batch, cur, wnow, wser, fpc, flk, fser, spc, snow,
                 faults, started, failed, flushLog, nextSid>>

\* A variant in which ack may also precede the writes of process_message.
AckEarly(w) == wpc[w] \in {"ack", "pm_new", "pm_ext"}

\* A worker position at which ack may follow.
AckReady(w) == wpc[w] = "ack"

\* xack(raw_stream, group, message_id); then the next entry, or the loop's top
WAck(w) ==
  /\ AckReady(w)
  /\ acked' = acked \cup {cur[w]}
  /\ cur' = [cur EXCEPT ![w] = 0]
  /\ wnow' = [wnow EXCEPT ![w] = 0]
  /\ wser' = [wser EXCEPT ![w] = NoSeries]
  /\ wpc' = [wpc EXCEPT ![w] = IF batch[w] = <<>> THEN "top" ELSE "next"]
  /\ UNCHANGED <<ingressVars, sideVars, now, half, raw, lastDelivered, storeVars, stopReg, stopSet, lockVars,
                 batch, fpc, flk, fser, spc, snow, faults, histVars>>

\* A variant in which the exception ends the worker's loop.
WFaultEndsLoop(w) ==
  /\ wpc[w] \in {"pm_new", "pm_ext"}
  /\ faults < FaultBudget
  /\ faults' = faults + 1
  /\ failed' = failed \cup {cur[w]}
  /\ wpc' = [wpc EXCEPT ![w] = "done"]
  /\ batch' = [batch EXCEPT ![w] = <<>>]
  /\ cur' = [cur EXCEPT ![w] = 0]
  /\ wnow' = [wnow EXCEPT ![w] = 0]
  /\ wser' = [wser EXCEPT ![w] = NoSeries]
  /\ UNCHANGED <<ingressVars, sideVars, now, half, raw, lastDelivered, acked, storeVars, stopReg, stopSet, lockVars,
                 fpc, flk, fser, spc, snow, started, returned, plog, flushLog, nextSid>>

\* A store operation of process_message raises (hset of either branch): the
\* except branch logs, sleeps 1 s, and the loop goes on; the entries of the
\* batch not yet handled are dropped with the local variable.
WFault(w) ==
  /\ wpc[w] \in {"pm_new", "pm_ext"}
  /\ faults < FaultBudget
  /\ faults' = faults + 1
  /\ failed' = failed \cup {cur[w]}
  /\ wpc' = [wpc EXCEPT ![w] = "top"]
  /\ batch' = [batch EXCEPT ![w] = <<>>]
  /\ cur' = [cur EXCEPT ![w] = 0]
  /\ wnow' = [wnow EXCEPT ![w] = 0]
  /\ wser' = [wser EXCEPT ![w] = NoSeries]
  /\ UNCHANGED <<ingressVars, sideVars, now, half, raw, lastDelivered, acked, storeVars, stopReg, stopSet, lockVars,
                 fpc, flk, fser, spc, snow, started, returned, plog, flushLog, nextSid>>

\* ------------------------------------------------------------ scheduler
\* while not stop_event.is_set():
\* scheduler_tick: zrangebyscore(sched_zset, 0, current_time) returns the chat;
\* _flush_series(chat_id, current_time) is entered.
STick ==
  /\ spc = "idle"
  /\ ~schStop
  /\ deadline # Absent
  /\ deadline <= now
  /\ snow' = now
  /\ spc' = "flush"
  /\ fpc' = [fpc EXCEPT !["sch"] = "f_check"]
  /\ UNCHANGED <<ingressVars, sideVars, now, half, raw, lastDelivered, acked, storeVars, stopReg, stopSet, lockVars,
                 wpc, batch, cur, wnow, wser, flk, fser, faults, histVars>>

FlushStep(t) ==
  \/ FCheck(t)
  \/ FCreate(t)
  \/ FGet(t)
  \/ FAcquire(t)
  \/ FXadd(t)
  \/ FDelete(t)
  \/ FZrem(t)

\* One step of the loop body of _chat_worker.  The loop's exit (WExit) is a
\* step only where stop_worker is called.
WorkerStep(w) ==
  \/ WRead(w)
  \/ WBegin(w)
  \/ WNew(w)
  \/ WExtend(w)
  \/ WSchedule(w)
  \/ WAck(w)
  \/ WFault(w)

\* ------------------------------------------------------------ ingress router
\* process_incoming_message for an admitted merchant event (u is not in the
\* whitelist and not the bot).  It runs on the event loop thread; the worker
\* and scheduler threads run between its store operations.

\* Senders: A and B are merchants; "@"+username of P and W is in the chat's
\* pinger.whitelist; user_id of R and W is DEFAULT_USER_ID_BOT.
Whitelist == {"P", "W"}
BotSenders == {"R", "W"}
UserId(u) == IF u \in BotSenders THEN "Bot" ELSE u

ScanLimit == 100

RemoveAt(q, i) == SubSeq(q, 1, i - 1) \o SubSeq(q, i + 1, Len(q))

\* _append_to_last_long_for_user's scan: the newest of the ScanLimit newest
\* final messages that is a merchant's and of user u; 0 if there is none.
LastLongOf(u) ==
  LET M == {i \in DOMAIN finals : /\ i > Len(finals) - ScanLimit
                                  /\ finals[i].utype = "merchant"
                                  /\ finals[i].user = u}
  IN IF M = {} THEN 0 ELSE CHOOSE i \in M : \A j \in M : j <= i

\* A variant whose combined entry keeps the end of the entry it replaces.
CombinedKeepsEnd(old, ev, t, fid) ==
  [id |-> fid, user |-> ev.user, utype |-> "merchant", mid |-> old.mid,
   text |-> JoinText(old.text, ev.text),
   start_ts |-> old.start_ts, end_ts |-> old.end_ts, count |-> old.count + 1,
   evs |-> Append(old.evs, ev.mid), sid |-> old.sid]

\* new_entry of _append_to_last_long_for_user
CombinedEntry(old, ev, t, fid) ==
  [id |-> fid, user |-> ev.user, utype |-> "merchant", mid |-> old.mid,
   text |-> JoinText(old.text, ev.text),
   start_ts |-> old.start_ts, end_ts |-> t, count |-> old.count + 1,
   evs |-> Append(old.evs, ev.mid), sid |-> old.sid]

\* _ensure_worker_for_chat (start_worker unless the chat is in _stop_events),
\* then get_chat_status: is there an active series of this user_id?
IngressBegin(u, txt) ==
  /\ gpc = "idle"
  /\ arrivals < MaxEvents
  /\ stopReg # "none" \/ \E w \in Workers : wpc[w] = "unborn"
  /\ arrivals' = arrivals + 1
  /\ gev' = [mid |-> arrivals + 1, user |-> u, text |-> txt, t |-> now]
  /\ gcont' = (series.live /\ series.user = u)
  /\ gpc' = "act"
  /\ IF stopReg = "none"
       THEN /\ stopReg' = FreeSlot
            /\ wpc' = [wpc EXCEPT ![FreeSlot] = "top"]
       ELSE UNCHANGED <<stopReg, wpc>>
  /\ StartSilence
  /\ ApplyWindow
  /\ UNCHANGED <<monVars, ppVars, downVars, botEnabled, rejlog, silEnabled, tcheck, winCfg,
                 now, half, raw, lastDelivered, acked,
                 storeVars, stopSet, lockVars,
                 batch, cur, wnow, wser, fpc, flk, fser, spc, snow, faults, ilog,
                 histVars>>

\* add_message(chat_id, messages_id, user_id, username, "merchant", text)
Enqueue(ev) ==
  raw' = Append(raw, [mid |-> ev.mid, user |-> ev.user, utype |-> "merchant",
                      text |-> ev.text])

\* What the handler did with the event it holds, for the record of the run.
Handled(did) ==
  [mid |-> gev.mid, user |-> gev.user, text |-> gev.text, t |-> gev.t, did |-> did]

\* {"status": "in processing", "message_id": id}
InProcessing(mid, id) ==
  [mid |-> mid, status |-> "in processing", reason |-> "", id |-> id]

\* {"status": status, "reason": reason}
Refused(mid, status, reason) ==
  [mid |-> mid, status |-> status, reason |-> reason, id |-> 0]

\* The values of "class" in the answer of classify_text.
Classes == {0, 1}

\* A variant that enqueues whatever classify_text answered.
EnqueueAnyClass(class) == TRUE

\* need_response.get("class") == 1
NeedResponse(class) == class = 1

\* The rest of the merchant path: continue the active series, else merge into
\* the user's last final message, else classify and enqueue or drop.
IngressFinish ==
  /\ gpc = "act"
  /\ \/ /\ gcont
        /\ Enqueue(gev)
        /\ ilog' = Append(ilog, Handled("continued"))
        /\ resps' = Append(resps, InProcessing(gev.mid, Len(raw) + 1))
        /\ UNCHANGED <<finals, finalSeq>>
     \/ /\ ~gcont
        /\ LastLongOf(gev.user) # 0
        /\ finals' = RemoveAt(Append(finals,
                         CombinedEntry(finals[LastLongOf(gev.user)], gev, now, finalSeq + 1)),
                       LastLongOf(gev.user))
        /\ finalSeq' = finalSeq + 1
        /\ ilog' = Append(ilog, Handled("merged"))
        /\ resps' = Append(resps, InProcessing(gev.mid, finalSeq + 1))
        /\ UNCHANGED raw
     \/ /\ ~gcont
        /\ LastLongOf(gev.user) = 0
        /\ \E class \in Classes :
             /\ ilog' = Append(ilog, Handled(IF class = 1 THEN "classified" ELSE "ignored"))
             /\ IF NeedResponse(class)
                  THEN /\ Enqueue(gev)
                       /\ resps' = Append(resps, InProcessing(gev.mid, Len(raw) + 1))
                  ELSE /\ resps' = Append(resps, Refused(gev.mid, "ignored", "no_response_needed"))
                       /\ UNCHANGED raw
        /\ UNCHANGED <<finals, finalSeq>>
  /\ gpc' = "idle"
  /\ gev' = NoEvent
  /\ gcont' = FALSE
  /\ UNCHANGED <<monVars, downVars, cfgVars, silClock, ppc, pev, rawDeleted, resolved, pplog,
                 now, half, lastDelivered, acked, series, aggKeys, deadline, stopReg, stopSet,
                 lockVars,
                 wpc, batch, cur, wnow, wser, fpc, flk, fser, spc, snow, faults,
                 arrivals, histVars>>

\* ------------------------------------------------------------ PP events
\* process_incoming_message for an admitted PP event, and the final stream
\* operations it shares with the escalation monitor.

MaxReplies == 1        \* PP events handled
MessageTimeout == 1    \* the chat's pinger.message_timeout
SilenceTimeout == 1    \* the chat's silencer.silence_timeout
MaxAttempts == 3
ReminderScan == 50

Rev(q) == [i \in 1..Len(q) |-> q[Len(q) + 1 - i]]

\* get_final_messages(chat_id, n): xrevrange, the n newest, newest first
NewestFirst(n) ==
  LET k == IF Len(finals) < n THEN Len(finals) ELSE n
  IN [i \in 1..k |-> finals[Len(finals) + 1 - i]]

IsMerchant(f) == f.utype = "merchant"

\* _get_merchant_messages
MerchantMessages == SelectSeq(NewestFirst(ReminderScan), IsMerchant)

\* Stream ids are "<ms>-<seq>"; the model appends every final message in a
\* millisecond of its own, so the id of final message number n is "n-0".
StreamMs(id) == id
StreamSeq(id) == 0

\* xdel(final_stream, id) with the id as the stream returned it
DelFinal(q, id) == SelectSeq(q, LAMBDA f : f.id # id)

\* xdel(final_stream, n) with an integer n: the store reads it as "n-0"
DelFinalInt(q, n) ==
  SelectSeq(q, LAMBDA f : ~(StreamMs(f.id) = n /\ StreamSeq(f.id) = 0))

NullAnswer == [kind |-> "null", v |-> 0]

\* What one call of the LLM can give for the candidates ids: null, an id as
\* string or as integer, content that _parse_llm_json does not turn into a
\* dict, or an exception of the client.
AnswersFor(ids) ==
  {NullAnswer, [kind |-> "junk", v |-> 0], [kind |-> "error", v |-> 0]}
    \cup {[kind |-> k, v |-> StreamMs(id)] : k \in {"str", "int"}, id \in ids}

\* A variant that takes any parsed id.
AnyParsedId(a) == a.kind \in {"null", "int", "str"}

\* isinstance(parsed_any, dict) and (matched is None or isinstance(matched, int))
ValidAnswer(a) == a.kind \in {"null", "int"}

\* match_answer_to_question: the first valid answer of up to MaxAttempts
\* attempts, else {"matched_message_id": None}; an exception of the client
\* leaves the loop (kind "error").
RECURSIVE MatchFrom(_, _)
MatchFrom(answers, i) ==
  IF i > MaxAttempts THEN NullAnswer
  ELSE IF answers[i].kind = "error" THEN answers[i]
  ELSE IF ValidAnswer(answers[i]) THEN answers[i]
  ELSE MatchFrom(answers, i + 1)

MatchAnswer(answers) == MatchFrom(answers, 1)

\* An attempt that is not made: the loop was left at an earlier attempt.
Unasked == [kind |-> "unasked", v |-> 0]

\* The answers sofar, followed by the attempts that are not made.
Padded(sofar) ==
  sofar \o [k \in 1..(MaxAttempts - Len(sofar)) |-> Unasked]

\* for _ in range(max_attempts): the answers of the calls the loop makes from
\* attempt i on, after the answers sofar.
RECURSIVE Attempts(_, _, _)
Attempts(ids, i, sofar) ==
  IF i > MaxAttempts THEN {sofar}
  ELSE UNION {IF a.kind = "error" \/ ValidAnswer(a)
                THEN {Padded(Append(sofar, a))}
                ELSE Attempts(ids, i + 1, Append(sofar, a))
              : a \in AnswersFor(ids)}

\* The answers of one call of match_answer_to_question.
AnswerRuns(ids) == Attempts(ids, 1, <<>>)

\* The PP branch up to add_message: the event is appended to the raw stream.
\* A handler starts only while the monitor task sleeps or awaits.
PPBegin(u, parent) ==
  /\ ppc = "idle"
  /\ gpc = "idle"
  /\ mpc \in {"idle", "post", "silence"}
  /\ Len(pplog) < MaxReplies
  /\ stopReg # "none" \/ \E w \in Workers : wpc[w] = "unborn"
  /\ arrivals' = arrivals + 1
  /\ raw' = Append(raw, [mid |-> arrivals + 1, user |-> UserId(u), utype |-> "pp",
                         text |-> <<"x">>])
  /\ pev' = [mid |-> arrivals + 1, user |-> u, text |-> <<"x">>, t |-> now,
             t2 |-> 2 * now + half, rawid |-> Len(raw) + 1, parent |-> parent]
  /\ ppc' = "added"
  /\ IF stopReg = "none"
       THEN /\ stopReg' = FreeSlot
            /\ wpc' = [wpc EXCEPT ![FreeSlot] = "top"]
       ELSE UNCHANGED <<stopReg, wpc>>
  /\ StartSilence
  /\ ApplyWindow
  /\ UNCHANGED <<monVars, downVars, botEnabled, rejlog, silEnabled, tcheck, winCfg,
                 rawDeleted, resps, resolved, pplog,
                 now, half, lastDelivered, acked, storeVars, stopSet, lockVars,
                 batch, cur, wnow, wser, fpc, flk, fser, spc, snow, faults,
                 gpc, gev, gcont, ilog, histVars>>

\* The newest of the ScanLimit newest final messages whose messages_id is m.
ParentOf(m) ==
  LET q == NewestFirst(ScanLimit)
      H == {i \in DOMAIN q : q[i].mid = m}
  IN IF H = {} THEN 0 ELSE q[CHOOSE i \in H : \A j \in H : i <= j].id

\* process_message_if_reply_exist: xdel of the PP raw entry, then xdel of the
\* first final message whose messages_id is the parent's.
PPReply ==
  /\ ppc = "added"
  /\ pev.parent # 0
  /\ rawDeleted' = rawDeleted \cup {pev.rawid}
  /\ finals' = DelFinal(finals, ParentOf(pev.parent))
  /\ resolved' = IF ParentOf(pev.parent) = 0 THEN resolved
                 ELSE resolved \cup {ParentOf(pev.parent)}
  /\ pplog' = Append(pplog, [mid |-> pev.mid, name |-> pev.user, parent |-> pev.parent, answers |-> <<>>,
                             shown |-> {}, deleted |-> ParentOf(pev.parent),
                             raised |-> FALSE, t2 |-> pev.t2])
  /\ resps' = Append(resps, InProcessing(pev.mid, pev.rawid))
  /\ ppc' = "idle"
  /\ pev' = NoEvent
  /\ UNCHANGED <<monVars, downVars, cfgVars, silClock, ingressVars, now, half, raw, lastDelivered, acked,
                 series, aggKeys, deadline, finalSeq, stopReg, stopSet, lockVars,
                 wpc, batch, cur, wnow, wser, fpc, flk, fser, spc, snow, faults,
                 histVars>>

\* process_message_with_pp_response: xdel of the PP raw entry, then the LLM is
\* shown the merchant final messages and the matched one is deleted.
PPMatch ==
  /\ ppc = "added"
  /\ pev.parent = 0
  /\ rawDeleted' = rawDeleted \cup {pev.rawid}
  /\ LET shown == {MerchantMessages[i].id : i \in DOMAIN MerchantMessages}
     IN IF shown = {}
          THEN /\ pplog' = Append(pplog, [mid |-> pev.mid, name |-> pev.user, parent |-> 0,
                                          answers |-> <<>>, shown |-> {}, deleted |-> 0,
                                          raised |-> FALSE, t2 |-> pev.t2])
               /\ resps' = Append(resps, InProcessing(pev.mid, pev.rawid))
               /\ UNCHANGED finals
          ELSE \E answers \in AnswerRuns(shown) :
                 LET m == MatchAnswer(answers)
                 IN /\ finals' = IF m.kind \in {"null", "error"} THEN finals
                                 ELSE DelFinalInt(finals, m.v)
                    /\ pplog' = Append(pplog, [mid |-> pev.mid, name |-> pev.user, parent |-> 0,
                                               answers |-> answers, shown |-> shown,
                                               deleted |-> IF m.kind \in {"null", "error"}
                                                             THEN 0 ELSE m.v,
                                               raised |-> m.kind = "error", t2 |-> pev.t2])
                    /\ resps' = IF m.kind = "error" THEN resps
                                ELSE Append(resps, InProcessing(pev.mid, pev.rawid))
  /\ ppc' = "idle"
  /\ pev' = NoEvent
  /\ UNCHANGED <<monVars, downVars, cfgVars, silClock, ingressVars, resolved, now, half, raw, lastDelivered, acked,
                 series, aggKeys, deadline, finalSeq, stopReg, stopSet, lockVars,
                 wpc, batch, cur, wnow, wser, fpc, flk, fser, spc, snow, faults,
                 histVars>>

\* ------------------------------------------------------------ monitor
\* _check_pending_messages on the event loop.  The task gives way to the
\* ingress handlers only while it awaits the gateway in send_message; it does
\* not run while a handler is running.

\* current_time of a scan in half seconds
ScanTime(t, h) == 2 * t + h

\* (current_time - last_notification) > silence_timeout
Silent(t2, clock) == clock # Absent /\ t2 - clock > 2 * SilenceTimeout

\* current_time, then the chat's merchant_messages if its worker is running,
\* then the silence branch: with silencer.enabled and should_process, a scan
\* that found merchant messages restarts the silence clock, and one that found
\* none starts a silence notification if the chat has been silent.
MScan ==
  /\ mpc = "idle"
  /\ ppc = "idle" /\ gpc = "idle"
  /\ stopReg # "none"
  /\ mnow' = now
  /\ \E h \in half..1 : half' = h
  /\ mhalf' = half'
  /\ \E g \in BOOLEAN : mgate' = g
  /\ msnap' = MerchantMessages
  /\ mlast' = NoDecision
  /\ IF silEnabled /\ mgate'
       THEN IF msnap' # <<>>
              THEN /\ silClock' = ScanTime(mnow', mhalf')
                   /\ mpc' = "loop"
                   /\ UNCHANGED sillog
              ELSE IF Silent(ScanTime(mnow', mhalf'), silClock)
                THEN /\ sillog' = Append(sillog, [t |-> ScanTime(mnow', mhalf'),
                                                  since |-> silClock,
                                                  gate |-> mgate',
                                                  seen |-> Len(pplog)])
                     /\ mpc' = "silence"
                     /\ UNCHANGED silClock
                ELSE /\ mpc' = "loop"
                     /\ UNCHANGED <<silClock, sillog>>
       ELSE /\ mpc' = "loop"
            /\ UNCHANGED <<silClock, sillog>>
  /\ UNCHANGED <<mcur, remlog, remdone, ppVars, downVars, cfgVars, ingressVars, now, raw,
                 lastDelivered, acked, storeVars, stopReg, stopSet, lockVars,
                 wpc, batch, cur, wnow, wser, fpc, flk, fser, spc, snow, faults,
                 histVars>>

\* send_silence_notification after the await (a failed request is logged
\* there), then last_silence_notification.update({chat_id: current_time}).
MSilenceDone ==
  /\ mpc = "silence"
  /\ ppc = "idle" /\ gpc = "idle"
  /\ silClock' = ScanTime(mnow, mhalf)
  /\ mpc' = "loop"
  /\ UNCHANGED <<msnap, mnow, mhalf, mgate, mlast, sillog, mcur, remlog, remdone,
                 ppVars, downVars, cfgVars, ingressVars, now, half, raw,
                 lastDelivered, acked, storeVars, stopReg, stopSet, lockVars,
                 wpc, batch, cur, wnow, wser, fpc, flk, fser, spc, snow, faults,
                 histVars>>

\* The age of m at current_time in half seconds.
Age2(m, t, h) == ScanTime(t, h) - 2 * m.end_ts

\* age_seconds = int(current_time - end_ts)
AgeSeconds(m, t, h) == Age2(m, t, h) \div 2

\* age_seconds > message_timeout
Overdue(m, t, h) == AgeSeconds(m, t, h) > MessageTimeout

\* A variant whose reminder loop is inside the silence branch's condition.
RemindInHours(enabled, gate, late) == enabled /\ gate /\ late

\* The loop over merchant_messages follows the silence branch's if statement:
\* neither silencer.enabled nor should_process decides about a reminder.
ShouldRemind(enabled, gate, late) == late

\* for msg in merchant_messages: the next one; send_message starts its request
\* if the message is overdue.  After the last one the scan is over.
MNext ==
  /\ mpc = "loop"
  /\ ppc = "idle" /\ gpc = "idle"
  /\ IF msnap = <<>>
       THEN /\ mpc' = "idle"
            /\ mnow' = 0
            /\ mhalf' = 0
            /\ UNCHANGED <<msnap, mcur, remlog, mlast>>
       ELSE /\ mlast' = [id |-> Head(msnap).id,
                         age2 |-> Age2(Head(msnap), mnow, mhalf),
                         reminded |-> ShouldRemind(silEnabled, mgate,
                                                   Overdue(Head(msnap), mnow, mhalf))]
            /\ IF mlast'.reminded
                 THEN /\ mcur' = Head(msnap).id
                      /\ remlog' = Append(remlog, [id |-> Head(msnap).id,
                                                   late |-> Head(msnap).id \in resolved])
                      /\ msnap' = Tail(msnap)
                      /\ mpc' = "post"
                      /\ UNCHANGED <<mnow, mhalf>>
                 ELSE /\ msnap' = Tail(msnap)
                      /\ UNCHANGED <<mpc, mnow, mhalf, mcur, remlog>>
  /\ UNCHANGED <<mgate, sillog, silClock, remdone, ppVars, downVars, cfgVars, ingressVars, now, half, raw,
                 lastDelivered, acked, storeVars, stopReg, stopSet, lockVars,
                 wpc, batch, cur, wnow, wser, fpc, flk, fser, spc, snow, faults,
                 histVars>>

\* A variant that keeps the final message when the request failed.
KeepOnFailure(q, id, ok) == IF ok THEN DelFinal(q, id) ELSE q

\* The final stream after a reminder attempt: the xdel follows the try/except
\* in both cases.
AfterAttempt(q, id, ok) == DelFinal(q, id)

\* send_message after the await: the request succeeded, or it raised and the
\* error was logged; then xdel(final_stream, redis_stream_id).
MPostDone(ok) ==
  /\ mpc = "post"
  /\ ppc = "idle" /\ gpc = "idle"
  /\ finals' = AfterAttempt(finals, mcur, ok)
  /\ remdone' = Append(remdone, [id |-> mcur, ok |-> ok])
  /\ mcur' = 0
  /\ mpc' = "loop"
  /\ UNCHANGED <<msnap, mnow, mhalf, mgate, mlast, sillog, silClock, remlog, ppVars, downVars,
                 cfgVars, ingressVars, now, half, raw,
                 lastDelivered, acked, series, aggKeys, deadline, finalSeq, stopReg, stopSet,
                 lockVars, wpc, batch, cur, wnow, wser, fpc, flk, fser, spc, snow,
                 faults, histVars>>

\* The aggregator with the chat's worker started once and never stopped.
Next ==
  \/ Tick
  \/ \E u \in Users, txt \in Texts : AddMessage(u, txt)
  \/ StartWorker
  \/ \E w \in Workers : WorkerStep(w)
  \/ \E t \in Threads : FlushStep(t)
  \/ STick

Spec == Init /\ [][Next]_vars

\* Spec with the scheduling of the threads: the scheduler loop, the worker
\* loop and every _flush_series call in progress keep running, and time passes.
Fairness ==
  /\ WF_vars(Tick)
  /\ WF_vars(STick)
  /\ \A t \in Threads : WF_vars(FlushStep(t))
  /\ \A w \in Workers : WF_vars(WorkerStep(w))

SpecFair == Init /\ [][Next]_vars /\ Fairness

\* Workers stopped and started again (stop_worker, then start_worker starts a
\* second thread); the scheduler thread is left out.
NextRestart ==
  \/ Tick
  \/ \E u \in Users, txt \in Texts : AddMessage(u, txt)
  \/ StartWorker
  \/ StopWorker
  \/ \E w \in Workers : WorkerStep(w)
  \/ \E w \in Workers : WExit(w)
  \/ \E w \in Workers : FlushStep(w)

SpecRestart == Init /\ [][NextRestart]_vars

\* ------------------------------------------------------------ working hours
\* should_process_message_by_time(message_time, chat_config).  A time of day
\* is a number of half seconds since midnight; the day has DaySeconds seconds.
DaySeconds == 3
DayNames == {"fri", "sat"}

\* The chat's pinger settings: enabled, and the optional keys start_time and
\* end_time (whole seconds) and days.
PingerConfigs ==
  [enabled : BOOLEAN, hasHours : BOOLEAN, start_time : 0..(DaySeconds - 1),
   end_time : 0..(DaySeconds - 1), hasDays : BOOLEAN, days : SUBSET DayNames]

\* messages__date of UTC: its weekday and its time of day in half seconds
MessageTimes == [day : DayNames, tod2 : 0..(2 * DaySeconds - 1)]

\* time(tm_hour, tm_min, tm_sec) of utctimetuple(): the fraction of the
\* second is dropped; in half seconds again.
MsgTime(tod2) == 2 * (tod2 \div 2)

ShouldProcess(cfg, t) ==
  IF ~cfg.enabled THEN FALSE
  ELSE IF cfg.hasHours /\ ~(2 * cfg.start_time <= MsgTime(t.tod2)
                            /\ MsgTime(t.tod2) <= 2 * cfg.end_time) THEN FALSE
  ELSE IF cfg.hasDays /\ t.day \notin cfg.days THEN FALSE
  ELSE TRUE

\* process_incoming_message calls the gate with the event's date and the
\* chat's pinger settings, which are the same at every call.
CheckTime(cfg, t) ==
  /\ gpc = "idle" /\ ppc = "idle"
  /\ arrivals < MaxEvents
  /\ tcheck.called => cfg = tcheck.cfg
  /\ tcheck' = [called |-> TRUE, cfg |-> cfg, t |-> t, out |-> ShouldProcess(cfg, t)]
  /\ UNCHANGED <<ingressVars, monVars, ppVars, downVars, botEnabled, rejlog, silEnabled,
                 winCfg, confWindow, silClock, now, half, raw, lastDelivered, acked, storeVars, stopReg,
                 stopSet, lockVars, wpc, batch, cur, wnow, wser, fpc, flk, fser,
                 spc, snow, faults, histVars>>

\* ------------------------------------------------------------ admission
\* No early return.
NoResult == [status |-> "", reason |-> ""]

\* A variant that looks for an edit before it looks at the delivery time.
EditBeforeTime(p) ==
  IF ~p.known THEN [status |-> "ignored", reason |-> "chat_not_found"]
  ELSE IF p.edit THEN [status |-> "ignored", reason |-> "change message"]
  ELSE IF ~p.timeok THEN [status |-> "blocked", reason |-> "time_blocked"]
  ELSE NoResult

\* The checks of process_incoming_message before the sender is looked at:
\* chat known, delivery time allowed, not an edit of another message.
EarlyResult(p) ==
  IF ~p.known THEN [status |-> "ignored", reason |-> "chat_not_found"]
  ELSE IF ~p.timeok THEN [status |-> "blocked", reason |-> "time_blocked"]
  ELSE IF p.edit THEN [status |-> "ignored", reason |-> "change message"]
  ELSE NoResult

\* if f"@{username}" in whitelist / elif user_id == DEFAULT_USER_ID_BOT / else
UserType(u) ==
  IF u \in Whitelist THEN "pp"
  ELSE IF u \in BotSenders THEN "pp"
  ELSE "merchant"

\* A variant that tests the bot's user_id before the whitelist.
BotRefusedAnyName(u, enabled) == u \in BotSenders /\ ~enabled

\* The elif branch of the bot with bot_enabled == False
BotRefused(u, enabled) == u \notin Whitelist /\ u \in BotSenders /\ ~enabled

\* The early return of process_incoming_message for payload p, if any.
Rejection(p) ==
  IF EarlyResult(p) # NoResult THEN EarlyResult(p)
  ELSE IF BotRefused(p.user, botEnabled)
         THEN [status |-> "ignored", reason |-> "bot_disabled"]
         ELSE NoResult

\* process_incoming_message returns early.  The refusal of the bot comes
\* after _ensure_worker_for_chat.
Reject(p) ==
  /\ gpc = "idle"
  /\ ppc = "idle"
  /\ arrivals < MaxEvents
  /\ Rejection(p) # NoResult
  /\ IF EarlyResult(p) = NoResult THEN StartSilence ELSE UNCHANGED silClock
  /\ IF EarlyResult(p) = NoResult THEN ApplyWindow ELSE UNCHANGED confWindow
  /\ arrivals' = arrivals + 1
  /\ resps' = Append(resps, Refused(arrivals + 1, Rejection(p).status, Rejection(p).reason))
  /\ rejlog' = Append(rejlog, [mid |-> arrivals + 1, user |-> p.user, known |-> p.known,
                               timeok |-> p.timeok, edit |-> p.edit,
                               reason |-> Rejection(p).reason,
                               t |-> 2 * now + half, clock |-> silClock'])
  /\ IF EarlyResult(p) = NoResult /\ stopReg = "none"
       THEN /\ \E w \in Workers : wpc[w] = "unborn"
            /\ stopReg' = FreeSlot
            /\ wpc' = [wpc EXCEPT ![FreeSlot] = "top"]
       ELSE UNCHANGED <<stopReg, wpc>>
  /\ UNCHANGED <<monVars, downVars, botEnabled, silEnabled, tcheck, winCfg, ppc, pev, rawDeleted, resolved, pplog,
                 now, half, raw, lastDelivered, acked, storeVars, stopSet, lockVars,
                 batch, cur, wnow, wser, fpc, flk, fser, spc, snow, faults,
                 gpc, gev, gcont, ilog, histVars>>

\* The payloads of the ingress router: any sender, any combination of grounds
\* for an early return; the parent matters only to an event that passes them.
Payloads ==
  {p \in [user : {"A", "P", "R", "W"}, known : BOOLEAN, timeok : BOOLEAN,
          edit : BOOLEAN, parent : 0..1] :
     (~p.known \/ ~p.timeok \/ p.edit) => p.parent = 0}

\* process_incoming_message(payload)
Receive(p) ==
  /\ arrivals < MaxEvents
  /\ IF Rejection(p) # NoResult THEN Reject(p)
     ELSE IF UserType(p.user) = "merchant"
            THEN ppc = "idle" /\ IngressBegin(p.user, <<"x">>)
            ELSE PPBegin(p.user, p.parent)

\* The chat's configuration is read at construction.
InitRouter ==
  Constructed /\ botEnabled \in BOOLEAN /\ silEnabled \in BOOLEAN /\ WindowSet

\* The ingress router in front of the chat's worker.  The router reads no
\* clock on these paths; series are flushed by a change of author.
NextRouter ==
  \/ \E p \in Payloads : Receive(p)
  \/ IngressFinish
  \/ PPReply
  \/ PPMatch
  \/ \E w \in Workers : WorkerStep(w)
  \/ \E w \in Workers : FlushStep(w)

SpecRouter == InitRouter /\ [][NextRouter]_vars

\* The payloads of a merchant of a configured chat, no edits, dated as the
\* gate was last asked.
GatedPayloads ==
  {p \in Payloads : /\ p.user = "A" /\ p.known /\ ~p.edit
                    /\ tcheck.called /\ p.timeok = tcheck.out}

\* The working-hours gate in front of the ingress router.
NextGate ==
  \/ \E cfg \in PingerConfigs, t \in MessageTimes : CheckTime(cfg, t)
  \/ \E p \in GatedPayloads : Receive(p)
  \/ IngressFinish

SpecGate == Init /\ [][NextGate]_vars

\* ------------------------------------------------------------ shutdown
\* stop_all, _flush_all: all_chats = zrange(sched_zset, 0, -1); the chat is
\* flushed when it has a deadline.  _flush_series takes time.time() itself.
XBegin ==
  /\ xpc = "idle"
  /\ xnow' = now
  /\ IF deadline # Absent
       THEN /\ xpc' = "flush"
            /\ fpc' = [fpc EXCEPT !["main"] = "f_check"]
       ELSE /\ xpc' = "signal"
            /\ UNCHANGED fpc
  /\ UNCHANGED <<ingressVars, monVars, ppVars, cfgVars, silClock, schStop, now, half, raw, lastDelivered, acked, storeVars,
                 stopReg, stopSet, lockVars, wpc, batch, cur, wnow, wser, flk, fser,
                 spc, snow, faults, histVars>>

\* A store operation of the _flush_series call of _flush_all raises (hgetall,
\* xadd, delete or zrem): the with block releases the lock, and neither
\* _flush_all nor stop_all nor stop_producer catches the exception.
XFault ==
  /\ xpc = "flush"
  /\ fpc["main"] \in {"f_acq", "f_xadd", "f_del", "f_zrem"}
  /\ faults < FaultBudget
  /\ faults' = faults + 1
  /\ lockHeld' = IF InCritical("main") THEN lockHeld \ {flk["main"]} ELSE lockHeld
  /\ FlushRaise("main")
  /\ UNCHANGED <<ingressVars, monVars, ppVars, cfgVars, silClock, xnow, schStop, now, half, raw, lastDelivered,
                 acked, storeVars, stopReg, stopSet, flushLock, nextLock, wnow, wser,
                 started, returned, plog, flushLog, nextSid>>

\* stop_all: every Event of _stop_events is set; _stop_events.clear().
XSignal ==
  /\ xpc = "signal"
  /\ stopSet' = [w \in Workers |-> stopSet[w] \/ w = stopReg]
  /\ schStop' = TRUE
  /\ stopReg' = "none"
  /\ xpc' = "clear"
  /\ UNCHANGED <<ingressVars, monVars, ppVars, cfgVars, silClock, xnow, now, half, raw, lastDelivered, acked, storeVars,
                 lockVars, wpc, batch, cur, wnow, wser, fpc, flk, fser, spc, snow,
                 faults, histVars>>

\* stop_all: _threads.clear(); _flush_locks.clear(); the threads are not joined.
XClear ==
  /\ xpc = "clear"
  /\ flushLock' = 0
  /\ xpc' = "done"
  /\ UNCHANGED <<ingressVars, monVars, ppVars, cfgVars, silClock, xnow, schStop, now, half, raw, lastDelivered, acked,
                 storeVars, stopReg, stopSet, lockHeld, nextLock, wpc, batch, cur, wnow,
                 wser, fpc, flk, fser, spc, snow, faults, histVars>>

\* The service is running (worker and scheduler threads), then stop_producer
\* calls stop_all once; no event is accepted after stop_all began.  One
\* author writes: the races of shutdown do not need a change of author.
NextShutdown ==
  \/ Tick
  \/ xpc = "idle" /\ AddMessage("A", <<"x">>)
  \/ xpc = "idle" /\ StartWorker
  \/ \E w \in Workers : WorkerStep(w)
  \/ \E w \in Workers : WExit(w)
  \/ \E t \in Threads : FlushStep(t)
  \/ STick
  \/ XBegin
  \/ XFault
  \/ XSignal
  \/ XClear

SpecShutdown == Init /\ [][NextShutdown]_vars

\* SpecShutdown with the scheduling of the threads: a started thread keeps
\* running its loop, its loop test included.
StopFairness ==
  /\ \A w \in Workers : WF_vars(WorkerStep(w)) /\ WF_vars(WExit(w))
  /\ \A t \in Threads : WF_vars(FlushStep(t))

SpecStop == Init /\ [][NextShutdown]_vars /\ StopFairness

\* The final stream after the events of PresetUsers were processed at time 0
\* and their series flushed (one series per author), the worker idle in its
\* read, the time window_s.
PresetUsers == {<<"A">>, <<"B">>, <<"A", "B">>, <<"B", "A">>}

PresetFinal(i, u) ==
  [id |-> i, user |-> u, utype |-> UserType(u), mid |-> i, text |-> <<"x">>,
   start_ts |-> 0, end_ts |-> 0, count |-> 1, evs |-> <<i>>, sid |-> i]

\* The chat after the events of the users us, one final message each.
Preset(us) ==
    /\ now = WindowS
    /\ half = 0
    /\ raw = [i \in 1..Len(us) |->
                [mid |-> i, user |-> us[i], utype |-> UserType(us[i]), text |-> <<"x">>]]
    /\ lastDelivered = Len(us)
    /\ acked = 1..Len(us)
    /\ series = NoSeries
    /\ deadline = Absent
    /\ finals = [i \in 1..Len(us) |-> PresetFinal(i, us[i])]
    /\ finalSeq = Len(us)
    /\ stopReg = "w1"
    /\ stopSet = [w \in Workers |-> FALSE]
    /\ flushLock = 1
    /\ lockHeld = {}
    /\ nextLock = 2
    /\ wpc = [w \in Workers |-> IF w = "w1" THEN "top" ELSE "unborn"]
    /\ batch = [w \in Workers |-> <<>>]
    /\ cur = [w \in Workers |-> 0]
    /\ wnow = [w \in Workers |-> 0]
    /\ wser = [w \in Workers |-> NoSeries]
    /\ fpc = [t \in Threads |-> "none"]
    /\ flk = [t \in Threads |-> 0]
    /\ fser = [t \in Threads |-> NoSeries]
    /\ spc = "idle"
    /\ snow = 0
    /\ faults = 0
    /\ gpc = "idle"
    /\ gev = NoEvent
    /\ gcont = FALSE
    /\ arrivals = Len(us)
    /\ ilog = SelectSeq([i \in 1..Len(us) |->
                            [mid |-> i, user |-> us[i], text |-> <<"x">>, t |-> 0,
                             did |-> "classified"]],
                         LAMBDA e : UserType(e.user) = "merchant")
    /\ started = 1..Len(us)
    /\ returned = 1..Len(us)
    /\ failed = {}
    /\ plog = [i \in 1..Len(us) |-> <<i, 0>>]
    /\ flushLog = [i \in 1..Len(us) |-> i]
    /\ nextSid = Len(us) + 1
    /\ mpc = "idle"
    /\ msnap = <<>>
    /\ mnow = 0
    /\ mcur = 0
    /\ remlog = <<>>
    /\ remdone = <<>>
    /\ ppc = "idle"
    /\ pev = NoEvent
    /\ rawDeleted = {}
    /\ resps = <<>>
    /\ resolved = {}
    /\ pplog = <<>>
    /\ xpc = "idle"
    /\ xnow = 0
    /\ schStop = FALSE
    /\ botEnabled = TRUE
    /\ rejlog = <<>>
    /\ aggKeys = {}
    /\ mhalf = 0
    /\ mgate = TRUE
    /\ mlast = NoDecision
    /\ sillog = <<>>
    /\ silEnabled \in BOOLEAN
    /\ silClock = IF silEnabled THEN 0 ELSE Absent
    /\ tcheck = NoCheck
    /\ WindowSet

InitReply == \E us \in PresetUsers : Preset(us)

\* PP events and the escalation monitor over a final stream that holds
\* merchant final messages.
NextReply ==
  \/ Tick
  \/ \E parent \in 0..MaxEvents : PPBegin("P", parent)
  \/ PPReply
  \/ PPMatch
  \/ MScan
  \/ MSilenceDone
  \/ MNext
  \/ \E ok \in BOOLEAN : MPostDone(ok)

SpecReply == InitReply /\ [][NextReply]_vars

\* A final stream that holds a final message of merchant A and, newer than
\* it, nothing, or a final message of merchant B, or ReminderScan final
\* messages of the respondent P, whose events the worker read before their
\* XDEL.
BacklogUsers ==
  {<<"A">>, <<"A", "B">>, <<"A">> \o [i \in 1..ReminderScan |-> "P"]}

InitBacklog == \E us \in BacklogUsers : Preset(us)

\* The escalation monitor alone: nobody answers.
NextBacklog ==
  \/ Tick
  \/ MScan
  \/ MSilenceDone
  \/ MNext
  \/ \E ok \in BOOLEAN : MPostDone(ok)

\* _start_reminder_monitor: while True: await _check_pending_messages();
\* await asyncio.sleep(reminder_interval); every await returns, time passes.
MonitorFairness ==
  /\ WF_vars(Tick)
  /\ WF_vars(MScan)
  /\ WF_vars(MSilenceDone)
  /\ WF_vars(MNext)
  /\ WF_vars(\E ok \in BOOLEAN : MPostDone(ok))

SpecBacklog == InitBacklog /\ [][NextBacklog]_vars /\ MonitorFairness

SilenceHorizon == 3    \* the last second of the silence monitor's runs

\* PP events and the escalation monitor over a time long enough for two
\* silence notifications of the chat.
NextSilence ==
  \/ TickTo(SilenceHorizon)
  \/ \E parent \in 0..MaxEvents : PPBegin("P", parent)
  \/ PPReply
  \/ PPMatch
  \/ MScan
  \/ MSilenceDone
  \/ MNext
  \/ \E ok \in BOOLEAN : MPostDone(ok)

SpecSilence == InitReply /\ [][NextSilence]_vars

\* The aggregator fed by the ingress router's merchant path, with the events
\* of one merchant.
Senders == {"A"}

NextIngress ==
  \/ Tick
  \/ \E u \in Senders, txt \in Texts : IngressBegin(u, txt)
  \/ IngressFinish
  \/ \E w \in Workers : WorkerStep(w)
  \/ \E t \in Threads : FlushStep(t)
  \/ STick

SpecIngress == Init /\ [][NextIngress]_vars

\* The same with a chat whose window has never been stored, and whose
\* configuration names a window or does not.
InitWindow ==
  /\ Constructed /\ botEnabled = TRUE /\ silEnabled = FALSE
  /\ winCfg \in {Absent, WindowS}
  /\ confWindow = Absent

SpecWindow == InitWindow /\ [][NextIngress]_vars

\* ---------------------------------------------------------------- helpers
Range(f) == {f[i] : i \in DOMAIN f}

\* Nothing is in progress and nothing is left to do for the chat's threads.
WorkersIdle == \A w \in Workers : wpc[w] \in {"unborn", "top", "done"}
NothingToRead == Unread = <<>>
Quiescent == WorkersIdle /\ NothingToRead /\ spc = "idle"

\* ---------------------------------------------------------------- claims

\* C1: flushing is atomic with respect to concurrent process_message: no raw
\* event that is accounted in a flushed final message is also accounted (text
\* and count) in the series that succeeds the flushed one.
C1_FlushAtomic ==
  \A i \in DOMAIN finals :
    (series.live /\ series.sid # finals[i].sid)
      => Range(finals[i].evs) \cap Range(series.evs) = {}

\* C2: at most one thread is inside the critical section of _flush_series
\* for the chat, in every reachable state.
C2_FlushMutex == Cardinality({t \in Threads : InCritical(t)}) <= 1

\* C3: every active series is turned into at most one final message: no
\* series incarnation is appended twice by _flush_series.
C3_OneFinalPerSeries ==
  \A i, j \in DOMAIN flushLog : i # j => flushLog[i] # flushLog[j]

\* C4: whenever the chat has an active series, the deadline set holds its
\* entry (C, t) with last_ts <= t <= last_ts + window_s, in every reachable
\* state (also between the store operations of one call).
C4_DeadlineInvariant ==
  series.live =>
    /\ deadline # Absent
    /\ series.last_ts <= deadline
    /\ deadline <= series.last_ts + WindowS

\* The bounds of C4 at the states where no call is in progress for the chat.
C4_DeadlineWhenQuiet == (WorkersIdle /\ spc = "idle") => C4_DeadlineInvariant

\* C5: a raw event is acknowledged only after process_message returned
\* normally for it; an event whose processing raised is not acknowledged.
C5_AckAfterReturn == acked \subseteq returned /\ acked \cap failed = {}

\* One event was acknowledged and the processing of another one raised.
C5_Witness == acked # {} /\ failed # {}

\* C6: an event whose processing raised, and the events that followed it in
\* the batch, are processed again: once the running worker is back at the top
\* of its loop with nothing left to read, every delivered event has been
\* handled by a process_message call that returned.
C6_Redelivered ==
  \A w \in Workers :
    (wpc[w] = "top" /\ ~stopSet[w] /\ WorkersIdle /\ NothingToRead)
      => (1..lastDelivered) \subseteq returned

\* C7: raw events are processed in stream-append order: process_message
\* returns for the events in the order of their stream ids.
C7_AppendOrder ==
  \A i, j \in DOMAIN plog : i < j => plog[i][1] < plog[j][1]

\* x joined n times by newlines
RECURSIVE JoinN(_, _)
JoinN(x, n) == IF n <= 1 THEN x ELSE JoinN(x, n - 1) \o <<NL>> \o x

\* Everything the chat received was processed and flushed.
Drained == Quiescent /\ ~series.live

\* The events processed so far are exactly the n events of the stream, in
\* order, none raised, same author and same non-empty text, each processed
\* within window_s of the previous one.
Burst(n) ==
  /\ Len(raw) = n
  /\ Len(plog) = n
  /\ failed = {}
  /\ \A i \in 1..n : plog[i][1] = i /\ raw[i].user = raw[1].user /\ raw[i].text = raw[1].text
  /\ raw[1].text # <<>>
  /\ \A i \in 2..n : plog[i][2] - plog[i - 1][2] <= WindowS

\* C8: burst fusion: n same-author same-text events, each processed within
\* window_s of the previous one, then inactivity: exactly one final message,
\* count = n, text = x joined n times by newlines.
C8_BurstFusion ==
  \A n \in 1..MaxEvents :
    (Burst(n) /\ Drained)
      => /\ Len(finals) = 1
         /\ finals[1].count = n
         /\ finals[1].text = JoinN(raw[1].text, n)

\* Two events, of authors A then B, B's processed within window_s of A's.
AuthorSwitch ==
  /\ Len(raw) = 2
  /\ Len(plog) = 2
  /\ failed = {}
  /\ plog[1][1] = 1 /\ plog[2][1] = 2
  /\ raw[1].user # raw[2].user
  /\ plog[2][2] - plog[1][2] <= WindowS

\* The final message of a series that holds the single event id processed at t.
SingleFinal(f, id, t) ==
  /\ f.user = raw[id].user
  /\ f.text = raw[id].text
  /\ f.count = 1
  /\ f.start_ts = t
  /\ f.end_ts = t

\* C9: author change causes flush: once B's event is processed, A's series is
\* a final message with end_ts = A's last_ts and A's text and count; after the
\* idle time there are two final messages, B's with start_ts = end_ts = B's
\* processing time and count = 1.
C9_AuthorChange ==
  AuthorSwitch =>
    /\ Len(finals) >= 1
    /\ SingleFinal(finals[1], 1, plog[1][2])
    /\ Drained => /\ Len(finals) = 2
                  /\ SingleFinal(finals[2], 2, plog[2][2])

\* Two events of one author went through the ingress router and nothing else
\* did: the first was classified 1 and processed at time T, the second reached
\* the router later than T + window_s and was not dropped.
WindowExpired ==
  /\ gpc = "idle"
  /\ Len(ilog) = 2
  /\ ilog[1].did = "classified"
  /\ ilog[2].did # "ignored"
  /\ ilog[1].user = ilog[2].user
  /\ failed = {}
  /\ Len(plog) >= 1
  /\ plog[1][1] = 1
  /\ ilog[2].t > plog[1][2] + WindowS

C10_TwoFinals == WindowExpired /\ Drained /\ ilog[2].did # "merged" /\ Len(finals) = 2

FinalIds == {finals[i].id : i \in DOMAIN finals}

\* C11: parent-reply resolves question: a final message deleted by the reply
\* to its messages_id stays absent from the final stream, and the monitor
\* starts no reminder for it after the reply was handled.
C11_ParentReply ==
  /\ resolved \cap FinalIds = {}
  /\ \A i \in DOMAIN remlog : ~remlog[i].late

\* C12: reminder at-most-once: no final message has two reminder attempts,
\* and after an attempt, successful or failed, the final message is absent
\* from the final stream.
C12_ReminderOnce ==
  /\ \A i, j \in DOMAIN remlog : i # j => remlog[i].id # remlog[j].id
  /\ \A i \in DOMAIN remdone : remdone[i].id \notin FinalIds

\* A reminder failed at the gateway and the monitor's scan ran to its end.
C12_FailedSend ==
  /\ \E i \in DOMAIN remdone : ~remdone[i].ok
  /\ mpc = "idle"
  /\ Len(remdone) = Len(remlog)
  /\ now > MessageTimeout

\* The LLM answered every attempt of the PP event of entry e with the stream
\* id of the candidate id, as the candidates list shows it.
AnsweredWithId(e, id) ==
  /\ e.parent = 0
  /\ id \in e.shown
  /\ \A k \in 1..MaxAttempts : e.answers[k] = [kind |-> "str", v |-> StreamMs(id)]

\* C13: answer matching: when the LLM answers a PP event without parent with
\* the stream id of a candidate merchant final F, F is deleted, the PP raw
\* entry is deleted and the result is "in processing" with the PP raw id.
C13_AnswerMatching ==
  \A i \in DOMAIN pplog : \A id \in pplog[i].shown :
    AnsweredWithId(pplog[i], id)
      => /\ id \notin FinalIds
         /\ \E j \in DOMAIN resps :
              /\ resps[j] = InProcessing(pplog[i].mid, resps[j].id)
              /\ resps[j].id \in rawDeleted

\* stop_all returned and no thread is left running.
Stopped ==
  /\ xpc = "done"
  /\ \A w \in Workers : wpc[w] \in {"unborn", "done"}
  /\ \A t \in Threads : fpc[t] = "none"
  /\ spc = "idle"

\* C14: after stop_all has run and the workers have exited no active series
\* and no deadline entry is left, and every series that existed was flushed
\* to the final stream.
C14_ShutdownDrained ==
  Stopped => /\ ~series.live
             /\ deadline = Absent
             /\ \A sid \in 1..(nextSid - 1) : sid \in Range(flushLog)

\* C15: an active series has start_ts <= last_ts and count >= 1, its count is
\* the number of raw events fused into it since it was born, and the final
\* message of its flush carries its start_ts, its last_ts as end_ts and its
\* count.
C15_SeriesShape ==
  /\ series.live =>
       /\ series.start_ts # Absent
       /\ series.start_ts <= series.last_ts
       /\ series.count >= 1
       /\ series.count = series.fused
  /\ \A t \in Threads : fpc[t] = "f_del" =>
       \E i \in DOMAIN finals :
         /\ finals[i].sid = fser[t].sid
         /\ finals[i].start_ts = fser[t].start_ts
         /\ finals[i].end_ts = fser[t].last_ts
         /\ finals[i].count = fser[t].count

\* Worker w is inside process_message between its read of the series and the
\* end of its writes.
InReadModifyWrite(w) == wpc[w] \in {"pm_new", "pm_ext", "pm_zadd"}

\* Thread t holds the chat's flush lock.
HoldsLock(t) == flk[t] # 0 /\ flk[t] \in lockHeld

\* C20: process_message reads the series and writes the extended or fresh
\* series and its deadline while holding the chat's flush mutex, and no flush
\* takes place between the worker's read and its write.
C20_LockedUpdate ==
  \A w \in Workers :
    /\ InReadModifyWrite(w) => HoldsLock(w)
    /\ wpc[w] = "pm_ext" => series = wser[w]

\* messages_id of the entries of the raw stream.
RawMids == {raw[i].mid : i \in DOMAIN raw}

\* C17: an event of a whitelisted sender is pp (also when it is the bot's),
\* else an event of the bot is pp, else the event is a merchant's; an event of
\* the bot that is not whitelisted, with bot_enabled false, is answered
\* ignored / bot_disabled and nothing is appended to the raw stream.
C17_UserType ==
  /\ \A i \in DOMAIN pplog :
       /\ pplog[i].name \in Whitelist \cup BotSenders
       /\ pplog[i].name \in Whitelist \/ botEnabled
       /\ \E j \in DOMAIN raw : raw[j].mid = pplog[i].mid /\ raw[j].utype = "pp"
  /\ \A i \in DOMAIN ilog : ilog[i].user \notin Whitelist \cup BotSenders
  /\ \A j \in DOMAIN raw :
       raw[j].utype = IF raw[j].user \in {UserId(u) : u \in Whitelist \cup BotSenders}
                        THEN "pp" ELSE "merchant"
  /\ \A i \in DOMAIN rejlog :
       rejlog[i].reason = "bot_disabled" =>
         /\ rejlog[i].user \in BotSenders \ Whitelist
         /\ ~botEnabled
         /\ rejlog[i].mid \notin RawMids
         /\ \E j \in DOMAIN resps :
              resps[j] = Refused(rejlog[i].mid, "ignored", "bot_disabled")

\* With bot_enabled false the bot was turned away under a name that is not
\* whitelisted and accepted as pp under a whitelisted name.
C17_BothBots ==
  /\ ~botEnabled
  /\ \E i \in DOMAIN rejlog : rejlog[i].reason = "bot_disabled"
  /\ \E i \in DOMAIN pplog : pplog[i].name = "W"

\* C18: a merchant event that classify answered with class 0 is answered
\* ignored / no_response_needed and is in no raw entry, series or final
\* message; a merchant's raw entry is an event that continued the active
\* series of its user or that classify answered with class 1.
C18_ClassZeroDropped ==
  /\ \A i \in DOMAIN ilog :
       ilog[i].did = "ignored" =>
         /\ \E j \in DOMAIN resps :
              resps[j] = Refused(ilog[i].mid, "ignored", "no_response_needed")
         /\ ilog[i].mid \notin RawMids
         /\ ilog[i].mid \notin Range(series.evs)
         /\ \A k \in DOMAIN finals : ilog[i].mid \notin Range(finals[k].evs)
  /\ \A j \in DOMAIN raw :
       raw[j].utype = "merchant" =>
         \E i \in DOMAIN ilog : /\ ilog[i].mid = raw[j].mid
                                /\ ilog[i].did \in {"continued", "classified"}

\* One merchant event was dropped on class 0 and another one is in the raw
\* stream.
C18_DroppedAndAccepted ==
  /\ \E i \in DOMAIN ilog : ilog[i].did = "ignored"
  /\ \E j \in DOMAIN raw : raw[j].utype = "merchant"

\* C19: every result of the ingress router has status in_processing, ignored
\* or blocked; an accepted merchant or PP event is answered in_processing with
\* a message id, an edit event ignored / change_message.
C19_ResultStatus ==
  /\ \A j \in DOMAIN resps : resps[j].status \in {"in_processing", "ignored", "blocked"}
  /\ \A j \in DOMAIN resps :
       resps[j].mid \in RawMids =>
         resps[j].status = "in_processing" /\ resps[j].id # 0
  /\ \A i \in DOMAIN rejlog :
       (rejlog[i].known /\ rejlog[i].timeok /\ rejlog[i].edit) =>
         \E j \in DOMAIN resps :
           resps[j] = Refused(rejlog[i].mid, "ignored", "change_message")

\* C16: at most one active series of the chat exists at any instant: at most
\* one key of the store holds a series hash, and it is the one series the
\* aggregator reads.
C16_OneActiveSeries ==
  /\ Cardinality(aggKeys) <= 1
  /\ series.live <=> aggKeys # {}

\* A series is active after an earlier one of another author was flushed.
C16_SecondSeries ==
  /\ series.live
  /\ \E i \in DOMAIN finals : finals[i].user # series.user

\* The places that account the raw event with messages_id m: the active
\* series and the final messages.
PlacesOf(m) ==
  (IF series.live /\ m \in Range(series.evs) THEN 1 ELSE 0)
    + Cardinality({i \in DOMAIN finals : m \in Range(finals[i].evs)})

\* No call of process_message or _flush_series is in progress.
NoCallInProgress ==
  /\ WorkersIdle
  /\ spc = "idle"
  /\ \A t \in Threads : fpc[t] = "none"

\* C21: after a scheduler flush and the worker's processing of an event of
\* the chat collided, every raw event for which process_message returned
\* normally is accounted in exactly one place, the active series or one final
\* message, and the series left behind has user_id, user_type and start_ts.
C21_SerialOutcome ==
  NoCallInProgress =>
    /\ \A id \in returned : PlacesOf(raw[id].mid) = 1
    /\ series.live =>
         /\ series.user # ""
         /\ series.utype # ""
         /\ series.start_ts # Absent

\* C22: when the scheduler's flush finds no active series for the chat whose
\* expired deadline entry it read, the entry is absent from the deadline set
\* when the flush returns (stated for ticks during which the chat's worker is
\* between two calls).
C22_StaleDeadlineDropped ==
  [][(/\ fpc["sch"] = "f_acq"
      /\ fpc'["sch"] = "none"
      /\ ~series.live
      /\ WorkersIdle
      /\ \A w \in Workers : fpc[w] = "none")
       => deadline' = Absent]_vars

\* The chat receives no further events: every event was written, delivered
\* and handled.
NoFurtherEvents == Len(raw) = MaxEvents /\ Quiescent

\* C23: under fairness of the scheduler loop an active series of a chat that
\* receives no further events is eventually flushed once its window has
\* elapsed.
C23_EventuallyFlushed ==
  (series.live /\ NoFurtherEvents /\ series.last_ts + WindowS <= now)
    ~> ~series.live

\* The LLM calls made for the PP event of entry e.
CallsMade(e) == Cardinality({k \in DOMAIN e.answers : e.answers[k] # Unasked})

\* The id in the answer of attempt k was neither null nor an integer.
WrongType(e, k) == e.answers[k].kind \in {"str", "junk"}

C25_LlmErrorSilent ==
  \A i \in DOMAIN pplog :
    LET e == pplog[i] IN
      (e.parent = 0 /\ e.shown # {} /\ e.answers[1].kind = "error") =>
        /\ CallsMade(e) = 3
        /\ e.deleted = 0
        /\ ~e.raised
        /\ \E j \in DOMAIN resps : resps[j] = InProcessing(e.mid, resps[j].id)

\* stop_all has ended, by return or by exception.
StopAllEnded == xpc \in {"done", "raised"}

\* C26: a store error while flush_all flushes the chat does not block
\* termination: when stop_all has ended the stop Events of the chat's worker
\* and of the scheduler are set.
C26_BestEffortShutdown ==
  StopAllEnded => /\ schStop
                  /\ stopReg = "none"

\* C27: a scan reminds of the merchant final it examines if and only if the
\* message's exact age exceeds message_timeout: an age of message_timeout
\* plus half a second is reminded of, an age equal to message_timeout is not.
C27_ExactAge ==
  mlast.id # 0 => (mlast.reminded <=> mlast.age2 > 2 * MessageTimeout)

\* C28: the reminder branch is not gated: the message a scan examines is
\* reminded of exactly if its age_seconds exceeds message_timeout, whether or
\* not the working-hours gate holds and whatever silencer.enabled is; a
\* silence notification is started only with the gate and the silencer on.
C28_ReminderUngated ==
  /\ mlast.id # 0 => (mlast.reminded <=> mlast.age2 \div 2 > MessageTimeout)
  /\ \A i \in DOMAIN sillog : sillog[i].gate /\ silEnabled

\* C28 witness: a reminder started by a scan outside the working hours, in a
\* chat whose silencer is on.
C28_OutOfHours ==
  /\ mpc = "post"
  /\ mlast.reminded
  /\ ~mgate
  /\ silEnabled

\* C29: a silence notification is started only with silencer.enabled, the
\* working-hours gate, no merchant final found and a silence clock older
\* than silence_timeout; hence two notifications are more than
\* silence_timeout apart, none follows an admitted inbound event within
\* silence_timeout, and none is started without a silence clock.
C29_SilenceNotification ==
  \A i \in DOMAIN sillog :
    /\ silEnabled /\ sillog[i].gate
    /\ sillog[i].since # Absent
    /\ sillog[i].t - sillog[i].since > 2 * SilenceTimeout
    /\ \A j \in 1..(i - 1) : sillog[i].t - sillog[j].t > 2 * SilenceTimeout
    /\ \A j \in 1..sillog[i].seen : sillog[i].t - pplog[j].t2 > 2 * SilenceTimeout
    /\ \A j \in DOMAIN ilog : sillog[i].t - 2 * ilog[j].t > 2 * SilenceTimeout

\* C30: with silencer.enabled the ingress router sets the chat's silence
\* clock to the time of every incoming event of the chat, whatever the
\* admission outcome: for the events turned away (time_blocked, change
\* message, bot_disabled) and for those a handler is working on.
C30_ClockOnEveryEvent ==
  silEnabled =>
    /\ \A i \in DOMAIN rejlog : rejlog[i].known => rejlog[i].clock = rejlog[i].t
    /\ gpc # "idle" => silClock = 2 * gev.t
    /\ ppc # "idle" => silClock = pev.t2

\* The three results of the admission checks, told apart by status and by
\* the two reasons the other checks give.
ByChatCheck(r) == r.status = "ignored" /\ r.reason = "chat_not_found"
ByTimeCheck(r) == r.status = "blocked" /\ r.reason = "time_blocked"
ByEditCheck(r) ==
  r.status = "ignored" /\ r.reason \notin {"chat_not_found", "bot_disabled"}

\* C31: the admission checks run in the order chat known, time window, edit
\* event, and an event one of them rejects leaves the raw stream, the series,
\* the final stream, the deadline set, the stored window, the consumer group
\* and the workers as they were.
C31_AdmissionOrder ==
  [][Len(rejlog') > Len(rejlog) =>
       LET e == rejlog'[Len(rejlog')]
           r == resps'[Len(resps')]
       IN  /\ r.mid = e.mid
           /\ ~e.known => ByChatCheck(r)
           /\ (e.known /\ ~e.timeok) => ByTimeCheck(r)
           /\ (e.known /\ e.timeok /\ e.edit) => ByEditCheck(r)
           /\ (~e.known \/ ~e.timeok \/ e.edit) =>
                UNCHANGED <<raw, rawDeleted, lastDelivered, acked, storeVars,
                            confWindow, stopReg, stopSet, wpc>>]_vars

\* C31 witness: an edit event dated outside the working hours was answered
\* time_blocked, and the chat still has no worker.
C31_BlockedEdit ==
  /\ \E i \in DOMAIN rejlog :
       /\ rejlog[i].known /\ ~rejlog[i].timeok /\ rejlog[i].edit
       /\ rejlog[i].reason = "time_blocked"
  /\ stopReg = "none"
  /\ raw = <<>>

\* The merchant final messages of user u among the ScanLimit newest ones.
LongsOf(u) ==
  {i \in DOMAIN finals : /\ i > Len(finals) - ScanLimit
                         /\ finals[i].utype = "merchant"
                         /\ finals[i].user = u}

\* The text of a combined entry: old text, newline, new text; unless always,
\* an empty old text is followed by no newline.
MergedText(old, new, always) ==
  IF always \/ old # <<>> THEN old \o <<NL>> \o new ELSE new

\* The step of the merchant handler that follows its look at the active
\* series: a handler that saw a series of the user enqueues and leaves the
\* final stream alone; otherwise, if the user has a merchant final among the
\* newest ones, the newest such entry k is replaced by one combined entry and
\* nothing is enqueued or classified; with no such entry the final stream is
\* unchanged.
MergeOutcome(always) ==
  (gpc = "act" /\ gpc' = "idle") =>
    IF gcont \/ LongsOf(gev.user) = {}
      THEN finals' = finals
      ELSE \E k \in LongsOf(gev.user) :
             LET old == finals[k]
                 new == finals'[Len(finals')]
             IN  /\ \A j \in LongsOf(gev.user) : j <= k
                 /\ Len(finals') = Len(finals)
                 /\ SubSeq(finals', 1, Len(finals) - 1) = RemoveAt(finals, k)
                 /\ new.id \notin {finals[j].id : j \in DOMAIN finals}
                 /\ new.user = gev.user /\ new.utype = "merchant"
                 /\ new.text = MergedText(old.text, gev.text, always)
                 /\ new.start_ts = old.start_ts
                 /\ new.end_ts = now
                 /\ new.count = old.count + 1
                 /\ raw' = raw
                 /\ ilog'[Len(ilog')].did = "merged"
                 /\ resps'[Len(resps')] = InProcessing(gev.mid, new.id)

\* C32 as stated: the combined entry's text is always old text + newline +
\* new text.
C32_AppendToLastLong == [][MergeOutcome(TRUE)]_vars

\* C32: append_to_last_long is attempted only by a handler that saw no active
\* series of the user; it replaces the user's newest merchant final among the
\* 100 newest by one combined entry (text = old text + newline + new text, no
\* newline when the old text is empty; start_ts kept, end_ts = now, count + 1),
\* the number of finals is unchanged, nothing is enqueued or classified; with
\* no match nothing changes.
C32_AppendToLastLongJoined == [][MergeOutcome(FALSE)]_vars

\* C32 witness: an event was merged into a final message with empty text.
C32_MergedIntoEmpty ==
  /\ Len(ilog) = 2 /\ ilog[2].did = "merged"
  /\ ilog[1].text = <<>> /\ ilog[2].text = <<"x">>
  /\ \E i \in DOMAIN finals : finals[i].count = 2 /\ finals[i].text = <<"x">>

\* C33: process_message extends the active series it read exactly when the
\* author is the same and now - last_ts <= window_s, the bound included; the
\* extension writes text = old text + newline + new text (no newline after an
\* empty old text), last_ts = now and count + 1, leaves start_ts, user_id and
\* messages_id of the hash as they are, and sets the deadline to
\* now + window_s.
C33_Extension ==
  [][\A w \in Workers :
       /\ (wpc[w] = "next" /\ cur'[w] # 0) =>
            (wpc'[w] = "pm_ext" <=>
               /\ series.live
               /\ series.user = raw[cur'[w]].user
               /\ now - series.last_ts <= WindowS)
       /\ (wpc[w] = "pm_ext" /\ wpc'[w] = "pm_zadd") =>
            /\ series'.text = IF wser[w].text = <<>>
                                THEN raw[cur[w]].text
                                ELSE wser[w].text \o <<NL>> \o raw[cur[w]].text
            /\ series'.last_ts = wnow[w]
            /\ series'.count = wser[w].count + 1
            /\ series'.start_ts = series.start_ts
            /\ series'.user = series.user
            /\ series'.mid = series.mid
       /\ (wser[w].live /\ wpc[w] = "pm_zadd" /\ wpc'[w] = "ack") =>
            deadline' = wnow[w] + WindowS]_vars

\* C33 witness: an event processed exactly window_s after the first one has
\* extended the series.
C33_FusedAtBound ==
  /\ series.live /\ series.count = 2 /\ series.fused = 2
  /\ series.last_ts - series.start_ts = WindowS
  /\ series.text = <<"x", NL, "x">>
  /\ deadline = series.last_ts + WindowS
  /\ finals = <<>>

\* The worker threads of the chat that are inside an iteration of their loop
\* or about to enter one (at the loop's test with the stop Event not set).
Consuming ==
  {w \in Workers : /\ wpc[w] \notin {"unborn", "done"}
                   /\ ~(wpc[w] = "top" /\ stopSet[w])}

\* C34: at any time at most one worker is consuming the chat's raw stream:
\* start_worker is a no-op while a worker of the chat is registered, and a
\* worker started after stop_worker does not overlap with the previous worker
\* that has not yet left its loop.
C34_OneWorker ==
  [][/\ Cardinality(Consuming') <= 1
     /\ (stopReg # "none" /\ stopReg' # "none") => Consuming' \subseteq Consuming]_vars

\* What a step may do to the loops of the chat's worker threads and of the
\* scheduler: a worker that finds its stop Event set at the loop's test starts
\* no iteration; a worker leaves its loop only with its Event set, so not by a
\* store error, and leaves the raw stream in place; the scheduler starts no
\* tick once its Event is set.
CooperativeStop ==
  /\ \A w \in Workers :
       /\ (stopSet[w] /\ wpc[w] = "top") => wpc'[w] \in {"top", "done"}
       /\ (wpc[w] # "done" /\ wpc'[w] = "done") =>
            /\ stopSet[w]
            /\ faults' = faults
            /\ raw' = raw /\ rawDeleted' = rawDeleted
       /\ faults' > faults => wpc'[w] # "done"
  /\ (schStop /\ spc = "idle") => spc' = "idle"

\* C35: stop is cooperative and effective: after its stop flag is set a loop
\* finishes at most the iteration in progress and terminates; a store error
\* never terminates a loop whose flag is not set; the raw stream is left in
\* place when the worker terminates.
C35_CooperativeStop ==
  /\ [][CooperativeStop]_vars
  /\ \A w \in Workers : (stopSet[w] /\ wpc[w] # "unborn") ~> (wpc[w] = "done")
  /\ schStop ~> (spc = "idle")

\* C35 witness: a worker that had a store error in an iteration went on, was
\* stopped and has left its loop with the raw stream in place.
C35_StoppedAfterFault ==
  /\ faults > 0 /\ failed # {}
  /\ \E w \in Workers : wpc[w] = "done"
  /\ schStop /\ spc = "idle"
  /\ raw # <<>>

\* C36 as one call of the gate: with start_time, end_time and days set, the
\* answer is true exactly if the chat is enabled, the weekday is one of days
\* and start_time <= time of day <= end_time; an event the gate refuses is
\* answered blocked / time_blocked.
GateAnswer(c) ==
  (c.called /\ c.cfg.hasHours /\ c.cfg.hasDays) =>
    (c.out <=> /\ c.cfg.enabled
               /\ c.t.day \in c.cfg.days
               /\ 2 * c.cfg.start_time <= c.t.tod2
               /\ c.t.tod2 <= 2 * c.cfg.end_time)

\* C36: the working-hours gate returns true if and only if cfg.enabled, the
\* weekday of t is in cfg.days and start_time <= time-of-day(t) <= end_time,
\* both bounds inclusive; an event dated on a day outside days inside the
\* hours is answered blocked / time_blocked.
C36_WorkingHours ==
  [][/\ GateAnswer(tcheck')
     /\ (arrivals' > arrivals /\ tcheck.called /\ tcheck.cfg.hasDays
           /\ tcheck.t.day \notin tcheck.cfg.days) =>
          /\ resps'[Len(resps')].status = "blocked"
          /\ resps'[Len(resps')].reason = "time_blocked"]_vars

\* C37: for a chat whose configuration does not name the buffer window, the
\* window the ingress router applies to the chat, and that process_message
\* then uses, is the default of 2 seconds.
C37_DefaultWindow ==
  (winCfg = Absent /\ arrivals > 0) =>
    /\ confWindow = 2
    /\ GetWindow = 2
    /\ \A i \in DOMAIN plog : deadline # Absent => deadline <= plog[i][2] + 2

\* C38: a PP event never takes part in aggregation: its raw entry is deleted
\* before the chat's worker can read it, so no PP event is passed to
\* process_message, no PP event flushes a merchant's series, and no series
\* and no final message with user_type pp is ever created.
C38_PPNeverAggregated ==
  /\ \A id \in started : raw[id].utype # "pp"
  /\ \A w \in Workers :
       /\ \A i \in DOMAIN batch[w] : raw[batch[w][i]].utype # "pp"
       /\ (wpc[w] = "pm_flush" => raw[cur[w]].utype # "pp")
  /\ (series.live => series.utype # "pp")
  /\ \A i \in DOMAIN finals : finals[i].utype # "pp"

\* What the ingress handler did with the event whose messages_id is m.
DidWith(m) ==
  LET H == {i \in DOMAIN ilog : ilog[i].mid = m}
  IN IF H = {} THEN "" ELSE ilog[CHOOSE i \in H : TRUE].did

\* C39: every series the worker starts for a merchant begins with an event
\* that classify judged class = 1: an event enqueued without classification,
\* because ingress saw an active series of the same user, is only ever fused
\* into that series and never starts a new one, also when the scheduler
\* flushes the series between the ingress check and the worker's processing.
C39_SeriesStartClassified ==
  /\ (series.live /\ series.mid # 0) => DidWith(series.mid) = "classified"
  /\ \A w \in Workers :
       wpc[w] \in {"pm_new", "pm_flush"} => DidWith(raw[cur[w]].mid) = "classified"

\* The final message with stream id n has been reminded of and deleted.
Escalated(n) ==
  /\ n \notin FinalIds
  /\ \E i \in DOMAIN remdone : remdone[i].id = n

\* C40: under fairness of the monitor loop, every merchant final message
\* that stays unanswered in the final stream of a chat whose worker is running
\* eventually gets a reminder and is deleted, however many other final
\* messages the chat's final stream holds.
C40_EventuallyReminded ==
  (\E i \in DOMAIN finals : finals[i].id = 1 /\ IsMerchant(finals[i])) ~> Escalated(1)

====
